---- MODULE Spec2Model ----
(***************************************************************************)
(* A model of streamhist.js (src/index.js): the streaming histogram sketch  *)
(* StreamHist, its bin store (the bintrees RBTree bundled in src/README.md) *)
(* and its query layer.                                                     *)
(*                                                                          *)
(* Numbers are exact rationals <<n, d>> with d > 0, kept in lowest terms.   *)
(* The IEEE special values the code can produce are tuples with d = 0, and  *)
(* the JavaScript values null / undefined / a thrown TypeError are tuples   *)
(* with d < 0, so every value is a pair of integers and can be compared.    *)
(*                                                                          *)
(* Bins are JavaScript objects: they live in `heap` under an identity, and  *)
(* a sketch's tree holds identities, in the tree's in-order sequence, so    *)
(* that two sketches can hold the same bin object.                          *)
(***************************************************************************)
EXTENDS Integers, Sequences, FiniteSets, TLC

VARIABLES heap, hist, pushed, warmed, last

vars == <<heap, hist, pushed, warmed, last>>

(***************************** bounds **************************************)
\* pushed values are the integers 0..MaxV
MaxV == 3
\* push weights are 1..MaxW
MaxW == 2
\* the maxBins a sketch is constructed with is 1..MaxB
MaxB == 2
\* no push or merge takes a sketch's count() above MaxTotal
MaxTotal == 4
\* the freeze threshold of a sketch constructed with freeze enabled
FreezeAt == 2
\* the warmUp threshold of a sketch constructed with warmUp enabled
WarmAt == 2

(*************************** numbers ***************************************)
Abs(n) == IF n < 0 THEN -n ELSE n

Sgn(n) == IF n > 0 THEN 1 ELSE IF n < 0 THEN -1 ELSE 0

RECURSIVE GCD(_, _)
GCD(a, b) == IF b = 0 THEN a ELSE GCD(b, a % b)

\* the rational n/d (d # 0) in lowest terms with a positive denominator
Norm(n, d) ==
    LET g == GCD(Abs(n), Abs(d))
        s == IF d < 0 THEN -1 ELSE 1
    IN  <<(s * n) \div g, (s * d) \div g>>

R(n) == <<n, 1>>

NaN == <<0, 0>>
PosInf == <<1, 0>>
NegInf == <<-1, 0>>
Null == <<0, -1>>
Undef == <<0, -2>>
TypeError == <<0, -3>>
\* RangeError: Maximum call stack size exceeded
RangeError == <<0, -4>>

IsFinite(x) == x[2] > 0
IsInf(x) == x[2] = 0 /\ x[1] # 0
\* a JavaScript number that is not NaN
IsNum(x) == IsFinite(x) \/ IsInf(x)

\* JavaScript's conversion of a value to a number: undefined is NaN, null is 0
ToNum(x) == IF x = Undef THEN NaN ELSE IF x = Null THEN R(0) ELSE x

FNeg(x) == IF x[2] >= 0 THEN <<-x[1], x[2]>> ELSE x

FAdd(x0, y0) ==
    LET x == ToNum(x0)
        y == ToNum(y0)
    IN  IF x = NaN \/ y = NaN THEN NaN
        ELSE IF IsInf(x) /\ IsInf(y) THEN (IF x = y THEN x ELSE NaN)
        ELSE IF IsInf(x) THEN x
        ELSE IF IsInf(y) THEN y
        ELSE Norm(x[1] * y[2] + y[1] * x[2], x[2] * y[2])

FSub(x, y) == FAdd(x, FNeg(ToNum(y)))

FMul(x0, y0) ==
    LET x == ToNum(x0)
        y == ToNum(y0)
    IN  IF x = NaN \/ y = NaN THEN NaN
        ELSE IF IsInf(x) \/ IsInf(y)
             THEN (IF x[1] = 0 \/ y[1] = 0 THEN NaN
                   ELSE <<Sgn(x[1]) * Sgn(y[1]), 0>>)
        ELSE Norm(x[1] * y[1], x[2] * y[2])

FDiv(x0, y0) ==
    LET x == ToNum(x0)
        y == ToNum(y0)
    IN  IF x = NaN \/ y = NaN THEN NaN
        ELSE IF IsInf(x) THEN (IF IsInf(y) THEN NaN
                               ELSE <<x[1] * (IF y[1] < 0 THEN -1 ELSE 1), 0>>)
        ELSE IF IsInf(y) THEN R(0)
        ELSE IF y[1] = 0 THEN (IF x[1] = 0 THEN NaN ELSE <<Sgn(x[1]), 0>>)
        ELSE Norm(x[1] * y[2], x[2] * y[1])

\* the sign of x - y for two numbers that are not NaN
Cmp(x, y) ==
    IF IsInf(x) \/ IsInf(y)
    THEN Sgn((IF IsInf(x) THEN x[1] ELSE 0) - (IF IsInf(y) THEN y[1] ELSE 0))
    ELSE Sgn(x[1] * y[2] - y[1] * x[2])

\* JavaScript's <, <=, === on numbers: every comparison with NaN is false
FLt(x0, y0) == LET x == ToNum(x0) y == ToNum(y0) IN IsNum(x) /\ IsNum(y) /\ Cmp(x, y) < 0
FLe(x0, y0) == LET x == ToNum(x0) y == ToNum(y0) IN IsNum(x) /\ IsNum(y) /\ Cmp(x, y) <= 0
FEq(x, y) == IsNum(x) /\ IsNum(y) /\ x = y

FAbs(x) == IF x[2] >= 0 THEN <<Abs(x[1]), x[2]>> ELSE x

FSq(x) == FMul(x, x)

FMin(x, y) == IF FLt(y, x) THEN y ELSE x
FMax(x, y) == IF FLt(x, y) THEN y ELSE x

(***************************** bins ****************************************)
\* the sketches of the model: the receiver and the argument of merge
Sketches == {"a", "b"}

Other(h) == IF h = "a" THEN "b" ELSE "a"

\* ln(e + k) * 1000, rounded, for k = 1..12 (math.log(math.E + k))
LnTable == <<1313, 1551, 1744, 1905, 2044, 2165, 2274, 2372, 2461, 2543, 2619, 2689>>

Bins(w, h) == w.hist[h].bins

size(w, h) == Len(Bins(w, h))

BinAt(w, h, i) == w.heap[Bins(w, h)[i]]

\* the means, and the cumulative counts, of a tree's bins in tree order
Means(w, h) == [i \in 1..size(w, h) |-> BinAt(w, h, i).mean]
Cumns(w, h) == [i \in 1..size(w, h) |-> BinAt(w, h, i).cumn]

\* the tree's in-order sequence is strictly increasing by key: the searches
\* of the tree are then searches of the sequence
Increasing(keys) ==
    /\ \A i \in 1..Len(keys) : IsFinite(keys[i])
    /\ \A i \in 1..(Len(keys) - 1) : Cmp(keys[i], keys[i + 1]) < 0

TreeOrdered(w, h) == Increasing(Means(w, h))

CumnOrdered(w, h) == Increasing(Cumns(w, h))

compareBins(am, bm) == IF FLt(bm, am) THEN 1 ELSE IF FLt(am, bm) THEN -1 ELSE 0

compareBinCumns(ac, bc) == FSub(ac, bc)

\* an iterator is a position 1..n of the in-order sequence, or 0 (the null
\* iterator, which next() moves to the first and prev() to the last node)
ItNext(n, i) == IF i = 0 THEN (IF n > 0 THEN 1 ELSE 0) ELSE IF i < n THEN i + 1 ELSE 0

ItPrev(n, i) == IF i = 0 THEN n ELSE i - 1

\* the first position whose key is at or after x, the null iterator if none
lowerBound(keys, x) ==
    LET at == {i \in 1..Len(keys) : compareBins(x, keys[i]) <= 0}
    IN  IF at = {} THEN 0 ELSE CHOOSE i \in at : \A j \in at : i <= j

RECURSIVE SkipEqual(_, _, _)
SkipEqual(keys, x, i) ==
    IF i # 0 /\ compareBinCumns(keys[i], x) = R(0)
    THEN SkipEqual(keys, x, ItNext(Len(keys), i))
    ELSE i

\* the first position whose cumn is after x, searched with compareBinCumns
upperBound(keys, x) ==
    LET at == {i \in 1..Len(keys) : FLe(compareBinCumns(x, keys[i]), R(0))}
        lb == IF at = {} THEN 0 ELSE CHOOSE i \in at : \A j \in at : i <= j
    IN  SkipEqual(keys, x, lb)

\* RBTree.insert: a bin whose key compares equal to a node's is not inserted
TreeInsert(w, h, id) ==
    LET m == w.heap[id].mean
        bs == Bins(w, h)
        before == {i \in 1..Len(bs) : FLt(w.heap[bs[i]].mean, m)}
        k == Cardinality(before)
    IN  IF \E i \in 1..Len(bs) : compareBins(m, w.heap[bs[i]].mean) = 0
        THEN w
        ELSE [w EXCEPT !.hist[h].bins =
                 SubSeq(bs, 1, k) \o <<id>> \o SubSeq(bs, k + 1, Len(bs))]

\* RBTree.remove: removes the node whose key compares equal to the bin's
TreeRemove(w, h, id) ==
    LET m == w.heap[id].mean
        bs == Bins(w, h)
        at == {i \in 1..Len(bs) : compareBins(m, w.heap[bs[i]].mean) = 0}
    IN  IF at = {} THEN w
        ELSE LET k == CHOOSE i \in at : \A j \in at : i <= j
             IN  [w EXCEPT !.hist[h].bins = SubSeq(bs, 1, k - 1) \o SubSeq(bs, k + 1, Len(bs))]

NewId(w) == IF DOMAIN w.heap = {} THEN 1
            ELSE 1 + CHOOSE i \in DOMAIN w.heap : \A j \in DOMAIN w.heap : j <= i

\* a diffBins that leaves out the gap weighting
diffBinsUnweighted(a, b, weighted) ==
    <<FSq(FSub(b.mean, a.mean))[1], FSq(FSub(b.mean, a.mean))[2], 1000>>

\* diffBins returns the cost <<n, d, l>>, the number (n / d) * (l / 1000):
\* the squared gap n / d, times ln(e + min(a.count, b.count)) when weighted
diffBins(a, b, weighted) ==
    LET diff == FSq(FSub(b.mean, a.mean))
        k == IF a.count < b.count THEN a.count ELSE b.count
    IN  <<diff[1], diff[2], IF weighted THEN LnTable[k] ELSE 1000>>

\* the product a * l of two naturals as <<high, low>> in base 1000
BigMul(a, l) ==
    <<(a \div 1000) * l + ((a % 1000) * l) \div 1000, ((a % 1000) * l) % 1000>>

\* diff < maxDiff for two costs; maxDiff starts as Infinity, <<1, 0, 1000>>
CostLt(x, y) ==
    IF x[2] = 0 THEN FALSE
    ELSE IF y[2] = 0 THEN TRUE
    ELSE LET g == GCD(x[1] * y[2], y[1] * x[2])
             l == IF g = 0 THEN <<0, 0>> ELSE BigMul((x[1] * y[2]) \div g, x[3])
             r == IF g = 0 THEN <<0, 0>> ELSE BigMul((y[1] * x[2]) \div g, y[3])
         IN  l[1] < r[1] \/ (l[1] = r[1] /\ l[2] < r[2])

\* a combineBins that moves a to the midpoint of the two means
combineBinsMidpoint(w, a, b) ==
    LET A == w.heap[a]
        B == w.heap[b]
        mean == FDiv(FAdd(B.mean, A.mean), R(2))
        tss == FAdd(FMul(FSq(FSub(A.mean, mean)), R(A.count)),
                    FMul(FSq(FSub(B.mean, mean)), R(B.count)))
    IN  [w EXCEPT !.heap[a].mean = mean,
                  !.heap[a].count = A.count + B.count,
                  !.heap[a].tss = FAdd(A.tss, FAdd(B.tss, tss))]

\* combineBins(a, b) changes the object a in place; a and b are identities
combineBins(w, a, b) ==
    LET A == w.heap[a]
        B == w.heap[b]
        numerator == FAdd(FMul(B.mean, R(B.count)), FMul(A.mean, R(A.count)))
        mean == FDiv(numerator, R(A.count + B.count))
        tss == FAdd(FMul(FSq(FSub(A.mean, mean)), R(A.count)),
                    FMul(FSq(FSub(B.mean, mean)), R(B.count)))
    IN  [w EXCEPT !.heap[a].mean = mean,
                  !.heap[a].count = A.count + B.count,
                  !.heap[a].tss = FAdd(A.tss, FAdd(B.tss, tss))]

count(w, h) == w.hist[h].count

maxBinsOf(w, h) == w.hist[h].maxBins

freeze(w, h) == w.hist[h].freeze

warmUp(w, h) == w.hist[h].warmUp

\* an isFrozen that already holds when count() has reached freeze()
isFrozenAtThreshold(w, h) == freeze(w, h) # 0 /\ count(w, h) >= freeze(w, h)

isFrozen(w, h) == freeze(w, h) # 0 /\ count(w, h) > freeze(w, h)

\* a findNearest that returns iter.prev() when the two bins are equally near
nearestOfTiesBelow(w, h, p, near, prev) ==
    IF FEq(BinAt(w, h, near).mean, p) THEN near
    ELSE IF prev # 0 /\ FLe(FAbs(FSub(BinAt(w, h, prev).mean, p)),
                            FAbs(FSub(BinAt(w, h, near).mean, p)))
         THEN prev
         ELSE near

\* findNearest once lowerBound has placed the iterator: `near` is the
\* position of nearest, `prev` the position iter.prev() moves to (0 for null)
nearestOf(w, h, p, near, prev) ==
    IF FEq(BinAt(w, h, near).mean, p) THEN near
    ELSE IF prev # 0 /\ FLt(FAbs(FSub(BinAt(w, h, prev).mean, p)),
                            FAbs(FSub(BinAt(w, h, near).mean, p)))
         THEN prev
         ELSE near

\* a findNearest that leaves out the comparison with iter.prev()
nearestAtBound(w, h, p, near) == near

nearestAt(w, h, p, near) == nearestOf(w, h, p, near, ItPrev(size(w, h), near))

nearestFrom(w, h, p, it) ==
    nearestAt(w, h, p, IF it = 0 THEN ItPrev(size(w, h), it) ELSE it)

\* the position of the bin findNearest(p) returns, 0 for null
findNearest(w, h, p) ==
    IF size(w, h) = 0 THEN 0 ELSE nearestFrom(w, h, p, lowerBound(Means(w, h), p))

newBinAt(w, h, id) == TreeInsert(w, h, id)

_newBin(w, h, p, c) ==
    newBinAt([w EXCEPT !.heap = (NewId(w) :>
                 [mean |-> p, count |-> c, tss |-> R(0), cumn |-> Undef]) @@ w.heap],
             h, NewId(w))

\* an _insert that adds to the nearest bin of a frozen sketch whatever size() is
insertNearFrozen(w, h, x, c, nearest) ==
    IF nearest # 0 /\ (FEq(BinAt(w, h, nearest).mean, x) \/ isFrozen(w, h))
    THEN [w EXCEPT !.heap[Bins(w, h)[nearest]].count = @ + c]
    ELSE _newBin(w, h, x, c)

\* _insert after min, max, count and tss are updated and nearest is found
insertNear(w, h, x, c, nearest) ==
    IF nearest # 0 /\ (FEq(BinAt(w, h, nearest).mean, x)
                       \/ (isFrozen(w, h) /\ size(w, h) = maxBinsOf(w, h)))
    THEN [w EXCEPT !.heap[Bins(w, h)[nearest]].count = @ + c]
    ELSE _newBin(w, h, x, c)

insertScalars(w, h, x, c) ==
    [w EXCEPT !.hist[h].min = FMin(IF @ # Null THEN @ ELSE PosInf, x),
              !.hist[h].max = FMax(IF @ # Null THEN @ ELSE NegInf, x),
              !.hist[h].count = @ + c,
              !.hist[h].tss = R(0)]

insertInto(w, h, x, c) == insertNear(w, h, x, c, findNearest(w, h, x))

_insert(w, h, x, c) == insertInto(insertScalars(w, h, x, c), h, x, c)

\* the scan of _compress: the first adjacent pair of least diffBins
RECURSIVE ScanPairs(_, _, _, _, _)
ScanPairs(w, h, i, best, maxDiff) ==
    IF i >= size(w, h) THEN best
    ELSE LET diff == diffBins(BinAt(w, h, i), BinAt(w, h, i + 1), w.hist[h].weighted)
         IN  IF CostLt(diff, maxDiff)
             THEN ScanPairs(w, h, i + 1, i, diff)
             ELSE ScanPairs(w, h, i + 1, best, maxDiff)

\* a = combineBins(bi, bi1); this.bins().remove(bi1)
combinePair(w, h, bi, bi1) == TreeRemove(combineBins(w, bi, bi1), h, bi1)

combineAt(w, h, i) == combinePair(w, h, Bins(w, h)[i], Bins(w, h)[i + 1])

compressStep(w, h) == combineAt(w, h, ScanPairs(w, h, 1, 0, <<1, 0, 1000>>))

\* _compress; a tree of fewer than two bins above a maxBins below 1 is
\* outside the configurations of this model (maxBins >= 1 throughout)
RECURSIVE _compress(_, _)
_compress(w, h) ==
    IF size(w, h) > maxBinsOf(w, h) /\ size(w, h) >= 2
    THEN _compress(compressStep(w, h), h)
    ELSE w

\* this.bins().each(b => { b.count = 1; b.tss = 0.0; })
warmUpReset(w, h) ==
    [w EXCEPT !.heap = [id \in DOMAIN w.heap |->
        IF \E i \in 1..size(w, h) : Bins(w, h)[i] = id
        THEN [w.heap[id] EXCEPT !.count = 1, !.tss = R(0)]
        ELSE w.heap[id]]]

warmUpCheck(w, h) == IF count(w, h) = warmUp(w, h) THEN warmUpReset(w, h) ELSE w

\* a push that leaves out this._compress()
pushOneUncompressed(w, h, x, c) == warmUpCheck(_insert(w, h, x, c), h)

\* one turn of the loop of push
pushOne(w, h, x, c) == warmUpCheck(_compress(_insert(w, h, x, c), h), h)

\* push(p, count) for an array p
RECURSIVE push(_, _, _, _)
push(w, h, p, c) ==
    IF p = <<>> THEN w
    ELSE push(pushOne(w, h, Head(p), c), h, Tail(p), c)

compressIfOver(w, h) == IF size(w, h) > maxBinsOf(w, h) THEN _compress(w, h) ELSE w

\* the maxBins setter, called with an integer
setMaxBins(w, h, v) == compressIfOver([w EXCEPT !.hist[h].maxBins = v], h)

RECURSIVE InsertAll(_, _, _)
InsertAll(w, h, ids) ==
    IF ids = <<>> THEN w
    ELSE InsertAll(TreeInsert(w, h, Head(ids)), h, Tail(ids))

Min2(x, y) == IF y < x THEN y ELSE x

mergeScalars(w, h, g) ==
    [w EXCEPT !.hist[h].count = @ + w.hist[g].count,
              !.hist[h].min = FMin(IF @ # Null THEN @ ELSE PosInf,
                                   IF w.hist[g].min # Null THEN w.hist[g].min ELSE PosInf),
              !.hist[h].max = FMax(IF @ # Null THEN @ ELSE NegInf,
                                   IF w.hist[g].max # Null THEN w.hist[g].max ELSE NegInf)]

mergeBins(w, h, g) == _compress(InsertAll(w, h, Bins(w, g)), h)

\* a merge that leaves out the cap this.maxBins() + that.maxBins()
mergeCapUncapped(w, h, g, k) ==
    IF k # 0 THEN k ELSE Min2(maxBinsOf(w, h), maxBinsOf(w, g))

\* var maxBins = Number.isInteger(maxBins) ? maxBins : minBins, and the
\* setter called with math.min(maxBins, this.maxBins() + that.maxBins())
mergeCap(w, h, g, k) ==
    Min2(IF k # 0 THEN k ELSE Min2(maxBinsOf(w, h), maxBinsOf(w, g)),
         maxBinsOf(w, h) + maxBinsOf(w, g))

mergeInto(w, h, g, k) == mergeBins(setMaxBins(w, h, mergeCap(w, h, g, k)), h, g)

\* this.merge(that, maxBins); k = 0 stands for an omitted maxBins
merge(w, h, g, k) == mergeInto(mergeScalars(w, h, g), h, g, k)

\* a reset that leaves out this._cumn = 0
resetKeepingCumn(w, h) ==
    [w EXCEPT !.hist[h].bins = <<>>,
              !.hist[h].count = 0,
              !.hist[h].min = Null,
              !.hist[h].max = Null,
              !.hist[h].tss = R(0)]

reset(w, h) ==
    [w EXCEPT !.hist[h].bins = <<>>,
              !.hist[h].count = 0,
              !.hist[h].cumn = 0,
              !.hist[h].min = Null,
              !.hist[h].max = Null,
              !.hist[h].tss = R(0)]

\* new StreamHist(maxbins, weighted, freeze, warmUp)
StreamHist(maxbins, weighted, frz, warm) ==
    [bins |-> <<>>, maxBins |-> maxbins, weighted |-> weighted,
     freeze |-> frz, warmUp |-> warm,
     count |-> 0, cumn |-> 0, min |-> Null, max |-> Null, tss |-> R(0)]

(***************************** queries *************************************)
\* a query returns the world it leaves and the value it returns
Ret(w, v) == [w |-> w, v |-> v]

RECURSIVE CumulateFrom(_, _, _, _)
CumulateFrom(w, h, i, cumn) ==
    IF i > size(w, h)
    THEN [w EXCEPT !.hist[h].count = cumn, !.hist[h].cumn = cumn]
    ELSE CumulateFrom([w EXCEPT !.heap[Bins(w, h)[i]].cumn =
                                    FAdd(R(cumn), Norm(BinAt(w, h, i).count, 2))],
                      h, i + 1, cumn + BinAt(w, h, i).count)

_cumulate(w, h) ==
    IF w.hist[h].count = w.hist[h].cumn THEN w ELSE CumulateFrom(w, h, 1, 0)

\* _boundCumn once iter.prev() has given lo (a position, 0 for null)
boundCumnAt(w, h, x, lo) ==
    <<lo, IF (lo # 0 /\ FEq(BinAt(w, h, lo).mean, x)) \/ (lo # 0 /\ lo = size(w, h))
          THEN lo ELSE ItNext(size(w, h), lo)>>

\* the positions <<lo, up>> of the bins _boundCumn(x) returns, 0 for null
_boundCumn(w, h, x) ==
    boundCumnAt(w, h, x, ItPrev(size(w, h), upperBound(Cumns(w, h), x)))

boundAt(w, h, x, lo) ==
    <<lo, IF FEq(BinAt(w, h, lo).mean, x) \/ lo = size(w, h)
          THEN lo ELSE ItNext(size(w, h), lo)>>

boundFrom(w, h, x, it) == boundAt(w, h, x, IF it = 1 THEN it ELSE ItPrev(size(w, h), it))

\* the positions <<lo, up>> of the bins _bound(x) returns
_bound(w, h, x) == boundFrom(w, h, x, lowerBound(Means(w, h), x))

RECURSIVE ISqrtFrom(_, _)
ISqrtFrom(n, r) == IF (r + 1) * (r + 1) > n THEN r ELSE ISqrtFrom(n, r + 1)

\* the integer part of the square root of n >= 0
ISqrt(n) == ISqrtFrom(n, 0)

IsSquare(n) == ISqrt(n) * ISqrt(n) = n

\* the number p + q * sqrt(d) for rationals p, q and d, d > 0 not a square
Surd(p, q, d) == p \o q \o d

IsSurd(v) == Len(v) = 6

\* p + q * math.sqrt(d): a rational when d is the square of one; sqrt of a
\* negative number is a mathjs Complex, and the arithmetic on it gives NaN
AddSqrt(p, q, d) ==
    IF ~IsFinite(d) \/ ~IsFinite(p) \/ ~IsFinite(q) THEN NaN
    ELSE IF d[1] < 0 THEN NaN
    ELSE IF IsSquare(d[1]) /\ IsSquare(d[2])
         THEN FAdd(p, FMul(q, Norm(ISqrt(d[1]), ISqrt(d[2]))))
    ELSE IF q[1] = 0 THEN p
    ELSE Surd(p, q, d)

\* the a == 0 branch: z = b != 0 ? (s - lower.cumn) / b : 0
quantileLinear(lower, upper, s, b) ==
    FAdd(lower.mean, FMul(FSub(upper.mean, lower.mean),
                          IF b # R(0) THEN FDiv(FSub(s, lower.cumn), b) ELSE R(0)))

\* the a != 0 branch: z = (-b + sqrt(b * b - 4 * a * c)) / (2 * a), b = 2 *
\* lower.count, c = 2 * d; the result lower.mean + span * z as p + r * sqrt
quantileRoot(lower, span, a, d) ==
    AddSqrt(FAdd(lower.mean, FMul(span, FDiv(R(-2 * lower.count), R(2 * a)))),
            FDiv(span, R(2 * a)),
            FSub(R(4 * lower.count * lower.count), FMul(R(4 * a), FMul(R(2), d))))

quantileBetween(lower, upper, s) ==
    IF upper.count - lower.count = 0
    THEN quantileLinear(lower, upper, s, FSub(upper.cumn, lower.cumn))
    ELSE quantileRoot(lower, FSub(upper.mean, lower.mean), upper.count - lower.count,
                      FSub(lower.cumn, s))

\* _quantile from the bracket on; lower.cumn of a null lower throws
quantileBound(w, h, s, bound) ==
    IF bound[1] = 0 \/ bound[2] = 0 THEN Ret(w, TypeError)
    ELSE Ret(w, quantileBetween(BinAt(w, h, bound[1]), BinAt(w, h, bound[2]), s))

quantileAt(w, h, s) == quantileBound(w, h, s, _boundCumn(w, h, s))

\* a _quantile without the shortcuts for q <= 0 and q >= 1
_quantileUnclamped(w, h, q) ==
    IF size(w, h) = 0 THEN Ret(w, Null)
    ELSE quantileAt(_cumulate(w, h), h, FMul(R(count(w, h)), q))

_quantile(w, h, q) ==
    IF size(w, h) = 0 THEN Ret(w, Null)
    ELSE IF FLe(q, R(0)) THEN Ret(w, w.hist[h].min)
    ELSE IF FLe(R(1), q) THEN Ret(w, w.hist[h].max)
    ELSE quantileAt(_cumulate(w, h), h, FMul(R(count(w, h)), q))

\* an mb that leaves out the slope (mdiff / pdiff) * bdiff
sumMbFlat(lower, upper, pdiff, bdiff) == R(lower.count)

\* mb = lower.count + (mdiff / pdiff) * bdiff
sumMb(lower, upper, pdiff, bdiff) ==
    FAdd(R(lower.count), FMul(FDiv(R(upper.count - lower.count), pdiff), bdiff))

\* s + ((lower.count + mb) / 2) * (bdiff / pdiff)
sumInterp(lower, s, mb, pdiff, bdiff) ==
    FAdd(s, FMul(FDiv(FAdd(R(lower.count), mb), R(2)), FDiv(bdiff, pdiff)))

sumDiffs(lower, upper, isMin, pdiff, bdiff) ==
    IF bdiff = R(0) THEN lower.cumn
    ELSE sumInterp(lower, IF isMin THEN Norm(lower.count, 2) ELSE lower.cumn,
                   sumMb(lower, upper, pdiff, bdiff), pdiff, bdiff)

sumBetween(lower, upper, isMin, b) ==
    sumDiffs(lower, upper, isMin, FSub(upper.mean, lower.mean), FSub(b, lower.mean))

sumBound(w, h, b, bound) ==
    Ret(w, sumBetween(BinAt(w, h, bound[1]), BinAt(w, h, bound[2]), bound[1] = 1, b))

sumAt(w, h, b) == sumBound(w, h, b, _bound(w, h, b))

\* a _sum without the shortcuts for b < min and b >= max
_sumUnclamped(w, h, b) ==
    IF size(w, h) = 0 THEN Ret(w, Null)
    ELSE sumAt(_cumulate(w, h), h, b)

_sum(w, h, b) ==
    IF size(w, h) = 0 THEN Ret(w, Null)
    ELSE IF FLt(b, w.hist[h].min) THEN Ret(w, R(0))
    ELSE IF FLe(w.hist[h].max, b) THEN Ret(w, R(count(w, h)))
    ELSE sumAt(_cumulate(w, h), h, b)

RECURSIVE MeanSum(_, _, _)
\* the sum of item.mean * item.count over the bins from position i on
MeanSum(w, h, i) ==
    IF i > size(w, h) THEN R(0)
    ELSE FAdd(FMul(BinAt(w, h, i).mean, R(BinAt(w, h, i).count)), MeanSum(w, h, i + 1))

mean(w, h) ==
    IF count(w, h) = 0 THEN Null
    ELSE FDiv(MeanSum(w, h, 1), R(count(w, h)))

RECURSIVE VarSum(_, _, _, _)
\* the sum of (item.mean - m)^2 * item.count over the bins from position i on
VarSum(w, h, i, m) ==
    IF i > size(w, h) THEN R(0)
    ELSE FAdd(FMul(FSq(FSub(BinAt(w, h, i).mean, m)), R(BinAt(w, h, i).count)),
              VarSum(w, h, i + 1, m))

variance(w, h) ==
    IF count(w, h) < 2 THEN Null
    ELSE FDiv(VarSum(w, h, 1, mean(w, h)), R(count(w, h)))

\* variance ? math.sqrt(variance) : null  (0 and null are both falsy)
stdOf(v) == IF v = Null \/ v = R(0) \/ v = NaN THEN Null ELSE AddSqrt(R(0), R(1), v)

std(w, h) == stdOf(variance(w, h))

\* combineBins(lower, upper).mean: the bin lower is changed in place
medianCombined(w, h, pv) == Ret(w, BinAt(w, h, pv).mean)

\* the exact branch of median, iter at position it, iter.prev() at pv
medianExact(w, h, it, pv) ==
    IF count(w, h) % 2 = 0
    THEN IF it = 0 \/ pv = 0 THEN Ret(w, TypeError)
         ELSE medianCombined(combineBins(w, Bins(w, h)[pv], Bins(w, h)[it]), h, pv)
    ELSE IF pv = 0 THEN Ret(w, TypeError)
         ELSE Ret(w, BinAt(w, h, pv).mean)

medianFrom(w, h, it) == medianExact(w, h, it, ItPrev(size(w, h), it))

median(w, h) ==
    IF count(w, h) > size(w, h) THEN _quantile(w, h, Norm(1, 2))
    ELSE medianFrom(w, h, lowerBound(Means(w, h), Norm(count(w, h), 2)))

summaryQ3(head, q1, q2, q3) ==
    IF q3.v = TypeError THEN q3
    ELSE Ret(q3.w, head \o <<q1.v, q2.v, q3.v>>)

summaryQ2(h, head, q1, q2) ==
    IF q2.v = TypeError THEN q2
    ELSE summaryQ3(head, q1, q2, _quantile(q2.w, h, Norm(3, 4)))

summaryQ1(h, head, q1) ==
    IF q1.v = TypeError THEN q1 ELSE summaryQ2(h, head, q1, median(q1.w, h))

\* summary(): the values <<count, mean, std, min, max, Q1, Q2, Q3>> of the
\* object, or TypeError when one of its calls throws
summary(w, h) ==
    summaryQ1(h, <<R(count(w, h)), mean(w, h), std(w, h), w.hist[h].min, w.hist[h].max>>,
              _quantile(w, h, Norm(1, 4)))

(*************************** state machine *********************************)
\* maxbins || 100 in the constructor
DefaultMaxBins == 100

\* the denominators of the quantile arguments: q is k / QDen, k in 0..QDen
QDen == 4

W == [heap |-> heap, hist |-> hist]

Values == 0..MaxV
Weights == 1..MaxW
Qs == {Norm(k, QDen) : k \in 0..QDen}
\* arguments of sum: the halves from -1 to MaxV + 1
Xs == {Norm(k, 2) : k \in (-2)..(2 * MaxV + 2)}

RECURSIVE Dedup(_, _)
Dedup(seq, seen) ==
    IF seq = <<>> THEN <<>>
    ELSE IF Head(seq) \in seen THEN Dedup(Tail(seq), seen)
    ELSE <<Head(seq)>> \o Dedup(Tail(seq), seen \cup {Head(seq)})

\* bin identities are not observable: the bins a tree holds are renumbered in
\* the order the trees list them, and a bin no tree holds is dropped
Canon(w) ==
    LET order == Dedup(Bins(w, "a") \o Bins(w, "b"), {})
        pos(id) == CHOOSE i \in 1..Len(order) : order[i] = id
    IN  [heap |-> [i \in 1..Len(order) |-> w.heap[order[i]]],
         hist |-> [h \in Sketches |->
                     [w.hist[h] EXCEPT !.bins = [i \in 1..Len(@) |-> pos(@[i])]]]]

RECURSIVE BinTotalFrom(_, _, _)
BinTotalFrom(w, h, i) ==
    IF i > size(w, h) THEN 0 ELSE BinAt(w, h, i).count + BinTotalFrom(w, h, i + 1)

\* the sum of the count fields of the bins of a sketch
BinTotal(w, h) == BinTotalFrom(w, h, 1)

\* the counters of the model stay within MaxTotal
InBounds(w) ==
    \A h \in Sketches : count(w, h) <= MaxTotal /\ BinTotal(w, h) <= MaxTotal

\* the searches of a sketch's tree are searches of its in-order sequence
Searchable(w, h) == TreeOrdered(w, h)

\* an operation op of sketch h, called with maxBins k where it is merge with
\* one, that leaves the world c
Commit(c, op, h, k) ==
    /\ heap' = c.heap
    /\ hist' = c.hist
    /\ last' = [op |-> op, h |-> h, k |-> k]

StepWith(w1, op, h, k) == InBounds(w1) /\ Commit(Canon(w1), op, h, k)

Step(w1, op, h) == StepWith(w1, op, h, 0)

RECURSIVE BagTotal(_, _)
BagTotal(bag, v) == IF v > MaxV THEN 0 ELSE bag[v] + BagTotal(bag, v + 1)

\* the total weight pushed into sketch h since its construction or last reset
PushedTotal(h) == BagTotal(pushed[h], 0)

NoPush == [x \in Values |-> 0]

\* the number of the n turns of the loop of push(p, c) that find
\* count() === warmUp() and reset the bins: the k-th leaves count() + k * c
WarmUps(w, h, n, c) ==
    Cardinality({k \in 1..n : count(w, h) + k * c = warmUp(w, h)})

InitWith(cfgA, cfgB) ==
    /\ heap = <<>>
    /\ hist = [h \in Sketches |-> IF h = "a" THEN cfgA ELSE cfgB]
    /\ pushed = [h \in Sketches |-> NoPush]
    /\ warmed = [h \in Sketches |-> 0]
    /\ last = [op |-> "new", h |-> "a", k |-> 0]

\* the sketch b of the specifications that work on sketch a alone
Unused == StreamHist(DefaultMaxBins, FALSE, 0, 0)

Configs ==
    {StreamHist(mb, wt, fz, wu) :
        mb \in 1..MaxB, wt \in BOOLEAN, fz \in {0, FreezeAt}, wu \in {0, WarmAt}}

\* the configurations with warmUp disabled
ColdConfigs == {cfg \in Configs : cfg.warmUp = 0}

\* the configurations with freeze and warmUp disabled and no gap weighting
PlainConfigs == {cfg \in ColdConfigs : cfg.freeze = 0 /\ ~cfg.weighted}

Init == \E cfg \in Configs : InitWith(cfg, Unused)

InitQuery == \E cfg \in ColdConfigs : InitWith(cfg, Unused)

InitMerge == \E cfgA, cfgB \in PlainConfigs : InitWith(cfgA, cfgB)

\* h.push(x, c); under a maxBins below 1 the _compress() of push does not
\* return (combineBins of an undefined pair throws on one bin, and the loop
\* does not end on more), and no state after it is modelled
Push(h, x, c) ==
    /\ Searchable(W, h)
    /\ maxBinsOf(W, h) >= 1
    /\ PushedTotal("a") + PushedTotal("b") + c <= MaxTotal
    /\ Step(push(W, h, <<R(x)>>, c), "push", h)
    /\ pushed' = [pushed EXCEPT ![h][x] = @ + c]
    /\ warmed' = [warmed EXCEPT ![h] = @ + WarmUps(W, h, 1, c)]

\* h.push([x, y], c)
PushArray(h, x, y, c) ==
    /\ Searchable(W, h)
    /\ maxBinsOf(W, h) >= 1
    /\ PushedTotal("a") + PushedTotal("b") + 2 * c <= MaxTotal
    /\ Step(push(W, h, <<R(x), R(y)>>, c), "push", h)
    /\ pushed' = [pushed EXCEPT ![h] = [v \in Values |->
                     @[v] + (IF v = x THEN c ELSE 0) + (IF v = y THEN c ELSE 0)]]
    /\ warmed' = [warmed EXCEPT ![h] = @ + WarmUps(W, h, 2, c)]

\* h.quantile(q); the search by cumn is a search of the in-order sequence
\* when the cumn of the bins increase along it
Quantile(h, q) ==
    /\ Searchable(W, h)
    /\ CumnOrdered(_cumulate(W, h), h)
    /\ Step(_quantile(W, h, q).w, "quantile", h)
    /\ UNCHANGED <<pushed, warmed>>

\* h.sum(x)
Sum(h, x) ==
    /\ Searchable(W, h)
    /\ Step(_sum(W, h, x).w, "sum", h)
    /\ UNCHANGED <<pushed, warmed>>

\* h.median()
Median(h) ==
    /\ Searchable(W, h)
    /\ CumnOrdered(_cumulate(W, h), h)
    /\ Step(median(W, h).w, "median", h)
    /\ UNCHANGED <<pushed, warmed>>

\* h.summary()
Summary(h) ==
    /\ Searchable(W, h)
    /\ CumnOrdered(_cumulate(W, h), h)
    /\ Step(summary(W, h).w, "summary", h)
    /\ UNCHANGED <<pushed, warmed>>

\* h.reset()
Reset(h) ==
    /\ last.op # "new"
    /\ Step(reset(W, h), "reset", h)
    /\ pushed' = [pushed EXCEPT ![h] = NoPush]
    /\ warmed' = [warmed EXCEPT ![h] = 0]

\* h.maxBins(v)
SetMaxBins(h, v) ==
    /\ Searchable(W, h)
    /\ v # maxBinsOf(W, h)
    /\ Step(setMaxBins(W, h, v), "maxBins", h)
    /\ UNCHANGED <<pushed, warmed>>

\* h.merge(g, k), and h.merge(g) for k = 0
Merge(h, g, k) ==
    /\ Searchable(W, h)
    /\ StepWith(merge(W, h, g, k), "merge", h, k)
    /\ UNCHANGED <<pushed, warmed>>

\* the maxBins arguments of merge: 0 for none, and 1..2 * MaxB + 1
MergeArgs == 0..(2 * MaxB + 1)

\* pushes of single values and of arrays into one sketch, in every configuration
Next ==
    \/ \E x \in Values, c \in Weights : Push("a", x, c)
    \/ \E x, y \in Values, c \in Weights : PushArray("a", x, y, c)

Spec == Init /\ [][Next]_vars

\* pushes interleaved with the queries, warmUp disabled
NextQuery ==
    \/ \E x \in Values, c \in Weights : Push("a", x, c)
    \/ \E q \in Qs : Quantile("a", q)
    \/ \E x \in Values : Sum("a", R(x))
    \/ Median("a")
    \/ Summary("a")

SpecQuery == InitQuery /\ [][NextQuery]_vars

\* pushes of single values and of arrays, warmUp disabled
SpecCold == InitQuery /\ [][Next]_vars

\* two sketches: pushes of weight 1 into both, merges of b into a, and the
\* maxBins setter of a
NextMerge ==
    \/ \E h \in Sketches, x \in 0..(MaxV - 1) : Push(h, x, 1)
    \/ \E k \in MergeArgs : Merge("a", "b", k)
    \/ \E v \in 1..MaxB : SetMaxBins("a", v)

SpecMerge == InitMerge /\ [][NextMerge]_vars

----------------------------------------------------------------------------
\* Bin-count bound

\* the number of distinct values pushed into sketch h
Distinct(h) == Cardinality({v \in Values : pushed[h][v] > 0})

\* C1: after every push, of a number or of an array, the number of bins
\* size() is at most maxBins()
C1_SizeWithinMaxBins ==
    last.op = "push" => size(W, "a") <= maxBinsOf(W, "a")

\* a push has made _compress combine bins: more distinct values than maxBins
C1_Witness ==
    /\ last.op = "push"
    /\ Distinct("a") > maxBinsOf(W, "a")
    /\ size(W, "a") = maxBinsOf(W, "a")

----------------------------------------------------------------------------
\* Weight accounting

\* C2: in every state reachable through push and the query operations,
\* count() equals the sum of the count fields of the bins of the sketch
C2_CountIsBinTotal == count(W, "a") = BinTotal(W, "a")

\* C3: with warmUp disabled, after pushes interleaved with quantile, sum,
\* median and summary calls, count() equals the sum of the weights pushed
C3_CountIsPushedWeight == count(W, "a") = PushedTotal("a")

----------------------------------------------------------------------------
\* Quantiles and sums

\* the rational part p, the factor q and the radicand d of p + q * sqrt(d)
RatPart(v) == IF IsSurd(v) THEN <<v[1], v[2]>> ELSE v
RootFactor(v) == IF IsSurd(v) THEN <<v[3], v[4]>> ELSE R(0)
Radicand(v) == IF IsSurd(v) THEN <<v[5], v[6]>> ELSE R(0)

\* the sign of a + b * sqrt(d) for rationals a, b and d >= 0
SignSurd(a, b, d) ==
    IF b[1] = 0 \/ d[1] = 0 THEN Sgn(a[1])
    ELSE IF a[1] = 0 \/ Sgn(a[1]) = Sgn(b[1]) THEN Sgn(b[1])
    ELSE Sgn(a[1]) * Cmp(FSq(a), FMul(FSq(b), d))

\* the sign of x + y from the signs of x, of y and of x * x - y * y
SignSum(sx, sy, sdiff) ==
    IF sy = 0 THEN sx
    ELSE IF sx = 0 \/ sx = sy THEN sy
    ELSE sx * sdiff

\* the sign of a + b * sqrt(d) + c * sqrt(e)
SignSurds(a, b, d, c, e) ==
    SignSum(SignSurd(a, b, d), SignSurd(R(0), c, e),
            SignSurd(FSub(FAdd(FSq(a), FMul(FSq(b), d)), FMul(FSq(c), e)),
                     FMul(R(2), FMul(a, b)), d))

\* a returned value that is a number and not NaN
IsNumber(v) == IsSurd(v) \/ IsNum(v)

\* u <= v for two returned numbers
NumLe(u, v) ==
    IF IsSurd(u) \/ IsSurd(v)
    THEN SignSurds(FSub(RatPart(u), RatPart(v)), RootFactor(u), Radicand(u),
                   FNeg(RootFactor(v)), Radicand(v)) <= 0
    ELSE Cmp(u, v) <= 0

\* u <= v, false when either is no number
ValueLe(u, v) == IsNumber(u) /\ IsNumber(v) /\ NumLe(u, v)

\* a.quantile(q)
quantile(q) == _quantile(W, "a", q).v

\* a.quantile(q2) called after a.quantile(q1)
quantileAfter(q1, q2) == _quantile(_quantile(W, "a", q1).w, "a", q2).v

\* C4: for a sketch filled by pushes and every q in [0, 1], quantile(q)
\* returns a number v with min() <= v <= max() and does not raise
C4_QuantileInRange ==
    last.op = "push" =>
        \A q \in Qs : /\ ValueLe(hist["a"].min, quantile(q))
                      /\ ValueLe(quantile(q), hist["a"].max)

\* C5: quantile is non-decreasing: for a sketch filled by pushes and q1 <= q2
\* in [0, 1] for which quantile returns numbers, quantile(q1) <= quantile(q2)
C5_QuantileMonotone ==
    last.op = "push" =>
        \A q1, q2 \in Qs :
            (FLe(q1, q2) /\ IsNumber(quantile(q1)) /\ IsNumber(quantileAfter(q1, q2)))
                => NumLe(quantile(q1), quantileAfter(q1, q2))

\* a.sum(x)
sum(x) == _sum(W, "a", x).v

\* a.sum(x2) called after a.sum(x1)
sumAfter(x1, x2) == _sum(_sum(W, "a", x1).w, "a", x2).v

\* C6: sum is non-decreasing: for a sketch filled by pushes and x1 <= x2 for
\* which sum returns numbers, sum(x1) <= sum(x2)
C6_SumMonotone ==
    last.op = "push" =>
        \A x1, x2 \in Xs :
            (FLe(x1, x2) /\ IsNumber(sum(x1)) /\ IsNumber(sumAfter(x1, x2)))
                => NumLe(sum(x1), sumAfter(x1, x2))

----------------------------------------------------------------------------
\* Merge

\* the sketches after the step
WNext == [heap |-> heap', hist |-> hist']

\* h.toArray()
toArray(w, h) ==
    [i \in 1..size(w, h) |-> [mean |-> BinAt(w, h, i).mean,
                              count |-> BinAt(w, h, i).count,
                              tss |-> BinAt(w, h, i).tss]]

\* the step is a.merge(b), without a maxBins, of two non-empty sketches
MergeOfNonEmpty ==
    /\ last'.op = "merge" /\ last'.k = 0
    /\ size(W, "a") > 0 /\ size(W, "b") > 0

\* C7: a.merge(b) of two non-empty sketches adds b's count to a.count(),
\* makes a.min() and a.max() the smaller and larger of the two extrema, and
\* leaves in a bins whose counts sum to the sum of both sketches' bin counts
C7_MergeConserves ==
    [][MergeOfNonEmpty =>
          /\ count(WNext, "a") = count(W, "a") + count(W, "b")
          /\ hist'["a"].min = FMin(hist["a"].min, hist["b"].min)
          /\ hist'["a"].max = FMax(hist["a"].max, hist["b"].max)
          /\ BinTotal(WNext, "a") = BinTotal(W, "a") + BinTotal(W, "b")]_vars

\* C8: an operation on a (merge with its compression, push, the maxBins
\* setter) leaves b.toArray(), b.count(), b.min() and b.max() unchanged
C8_MergeCopies ==
    [][last'.h = "a" =>
          /\ toArray(WNext, "b") = toArray(W, "b")
          /\ count(WNext, "b") = count(W, "b")
          /\ hist'["b"].min = hist["b"].min
          /\ hist'["b"].max = hist["b"].max]_vars

\* C9: after a.merge(b, k), a.maxBins() is min(k, A + B), and after
\* a.merge(b) it is min(min(A, B), A + B), for the maxBins A and B of the two
\* sketches before the call; and a.size() <= a.maxBins()
C9_MergeMaxBins ==
    [][last'.op = "merge" =>
          /\ maxBinsOf(WNext, "a") =
                 Min2(IF last'.k # 0 THEN last'.k
                      ELSE Min2(maxBinsOf(W, "a"), maxBinsOf(W, "b")),
                      maxBinsOf(W, "a") + maxBinsOf(W, "b"))
          /\ size(WNext, "a") <= maxBinsOf(WNext, "a")]_vars

\* a merge with a maxBins above both sketches' own has filled a to it
C9_Witness ==
    /\ last.op = "merge" /\ last.k > MaxB
    /\ maxBinsOf(W, "a") > MaxB
    /\ size(W, "a") = maxBinsOf(W, "a")

----------------------------------------------------------------------------
\* Exact median

\* the k-th smallest of the distinct values pushed into a
Ranked(k) ==
    CHOOSE v \in Values :
        /\ pushed["a"][v] > 0
        /\ Cardinality({u \in Values : pushed["a"][u] > 0 /\ u <= v}) = k

\* the median of the distinct values pushed into a
ExactMedian ==
    IF Distinct("a") % 2 = 1
    THEN R(Ranked((Distinct("a") + 1) \div 2))
    ELSE Norm(Ranked(Distinct("a") \div 2) + Ranked(Distinct("a") \div 2 + 1), 2)

\* C10: when distinct values were pushed and count() <= size(), median()
\* returns their exact median
C10_ExactMedian ==
    (/\ last.op = "push"
     /\ \A v \in Values : pushed["a"][v] <= 1
     /\ count(W, "a") <= size(W, "a"))
        => median(W, "a").v = ExactMedian

----------------------------------------------------------------------------
\* Frame of median

\* C11: median() does not change the sketch: toArray(), count() and size()
\* are the same after the call as before it
C11_MedianPure ==
    [][last'.op = "median" =>
          /\ toArray(WNext, "a") = toArray(W, "a")
          /\ count(WNext, "a") = count(W, "a")
          /\ size(WNext, "a") = size(W, "a")]_vars

----------------------------------------------------------------------------
\* JSON round trip

\* h.toJSON(): toArray() as _bins and the own fields but _bins and _cumn
toJSON(w, h) ==
    [bins |-> toArray(w, h),
     maxBins |-> w.hist[h].maxBins, weighted |-> w.hist[h].weighted,
     freeze |-> w.hist[h].freeze, warmUp |-> w.hist[h].warmUp,
     count |-> w.hist[h].count, min |-> w.hist[h].min, max |-> w.hist[h].max,
     tss |-> w.hist[h].tss]

\* json._bins.forEach((bin) => obj._bins.insert(bin)): the plain objects of
\* the array, which have no cumn, become the bins of the tree
RECURSIVE insertPlain(_, _, _)
insertPlain(w, g, bins) ==
    IF bins = <<>> THEN w
    ELSE insertPlain(
             TreeInsert([w EXCEPT !.heap = (NewId(w) :>
                            [mean |-> Head(bins).mean, count |-> Head(bins).count,
                             tss |-> Head(bins).tss, cumn |-> Undef]) @@ w.heap],
                        g, NewId(w)),
             g, Tail(bins))

\* the fields of new StreamHist() overwritten with those of json; _cumn stays 0
fromFields(json) ==
    [StreamHist(DefaultMaxBins, FALSE, 0, 0) EXCEPT
        !.maxBins = json.maxBins, !.weighted = json.weighted,
        !.freeze = json.freeze, !.warmUp = json.warmUp,
        !.count = json.count, !.min = json.min, !.max = json.max,
        !.tss = json.tss]

\* g = StreamHist.fromJSON(json)
fromJSON(w, g, json) ==
    insertPlain([w EXCEPT !.hist[g] = fromFields(json)], g, json.bins)

\* b = StreamHist.fromJSON(a.toJSON())
RoundTrip == fromJSON(W, "b", toJSON(W, "a"))

\* the fields of h that toJSON writes, but the bins
Scalars(w, h) == [w.hist[h] EXCEPT !.bins = <<>>, !.cumn = 0]

\* C12: r = fromJSON(toJSON(s)) has the toArray(), maxBins, weighted, freeze,
\* warmUp, count, min and max of s, and quantile and sum return on r what
\* they return on s
C12_RoundTrip ==
    /\ toArray(RoundTrip, "b") = toArray(W, "a")
    /\ Scalars(RoundTrip, "b") = Scalars(W, "a")
    /\ \A q \in Qs : _quantile(RoundTrip, "b", q).v = _quantile(W, "a", q).v
    /\ \A x \in Xs : _sum(RoundTrip, "b", x).v = _sum(W, "a", x).v

----------------------------------------------------------------------------
\* Density

\* res = (lower.count + mdiff * (bdiff / pdiff)) / pdiff
densityRes(lower, upper, bdiff, pdiff) ==
    FDiv(FAdd(R(lower.count), FMul(R(upper.count - lower.count), FDiv(bdiff, pdiff))),
         pdiff)

\* res >= 0 ? res / this.count() : 0.0
densityOf(res, n) == IF FLe(R(0), res) THEN FDiv(res, R(n)) ELSE R(0)

\* the interpolation branch of density between the bins at bound
densityBetween(w, h, b, bound) ==
    densityOf(densityRes(BinAt(w, h, bound[1]), BinAt(w, h, bound[2]),
                         FSub(b, BinAt(w, h, bound[1]).mean),
                         FSub(BinAt(w, h, bound[2]).mean, BinAt(w, h, bound[1]).mean)),
              count(w, h))

\* density(b - Number.EPSILON * 10) and density(b + Number.EPSILON * 10) for
\* a bin mean b: the argument equals no bin mean and is outside [min, max]
\* when b is min or max; its distance from b is left out of the arithmetic
densityBelow(w, h, b) ==
    IF FLe(b, w.hist[h].min) THEN R(0)
    ELSE densityBetween(w, h, b, boundFrom(w, h, NaN, lowerBound(Means(w, h), b)))

densityAbove(w, h, b) ==
    IF FLe(w.hist[h].max, b) THEN R(0)
    ELSE densityBetween(w, h, b, boundFrom(w, h, NaN, upperBound(Means(w, h), b)))

\* from 32 on the doubles are more than 2 * Number.EPSILON * 10 apart, and
\* b - Number.EPSILON * 10 or b + Number.EPSILON * 10 is the double b itself
Absorb == 32

\* lo === b or hi === b: density(b) calls density(b)
AbsorbsEps(b) == FLe(R(Absorb), FAbs(b))

densityBound(w, h, b, bound) ==
    IF FEq(BinAt(w, h, bound[1]).mean, b) /\ FEq(BinAt(w, h, bound[2]).mean, b)
    THEN IF AbsorbsEps(b) THEN RangeError
         ELSE densityOf(FDiv(FAdd(densityBelow(w, h, b), densityAbove(w, h, b)),
                             R(2)),
                        count(w, h))
    ELSE densityBetween(w, h, b, bound)

\* density(b)
density(w, h, b) ==
    IF size(w, h) = 0 THEN Null
    ELSE IF FLt(b, w.hist[h].min) \/ FLt(w.hist[h].max, b) THEN R(0)
    ELSE IF FEq(b, w.hist[h].min) /\ FEq(b, w.hist[h].max) THEN PosInf
    ELSE densityBound(w, h, b, _bound(w, h, b))

----------------------------------------------------------------------------
\* Empty sketch

\* pushes and resets of one sketch, in every configuration
NextReset ==
    \/ \E x \in Values, c \in Weights : Push("a", x, c)
    \/ Reset("a")

SpecReset == Init /\ [][NextReset]_vars

\* null or undefined
IsSentinel(v) == v = Null \/ v = Undef

\* C13: on a sketch newly constructed or just reset, quantile, sum, density,
\* median, mean and variance each return null or undefined, and none raises
C13_EmptySentinels ==
    last.op \in {"new", "reset"} =>
        /\ \A q \in Qs : IsSentinel(quantile(q))
        /\ \A x \in Xs : IsSentinel(sum(x)) /\ IsSentinel(density(W, "a", x))
        /\ IsSentinel(median(W, "a").v)
        /\ IsSentinel(mean(W, "a"))
        /\ IsSentinel(variance(W, "a"))

----------------------------------------------------------------------------
\* maxBins arguments

\* Number.isInteger(v)
IsInteger(v) == IsFinite(v) /\ v[2] = 1

\* a value that || replaces: undefined, null, NaN, 0
Falsy(v) == v \in {Undef, Null, NaN, R(0)}

\* this._maxBins = Number.isInteger(maxBins) ? maxBins : 100
maxBinsValue(arg) == IF IsInteger(arg) THEN arg[1] ELSE DefaultMaxBins

\* this.maxBins(maxbins || 100) in the constructor
ctorMaxBins(arg) == maxBinsValue(IF Falsy(arg) THEN R(DefaultMaxBins) ELSE arg)

\* the maxBins arguments: none, a non-integer, and the integers -1..MaxB
MaxBinsArgs == {Undef, Norm(5, 2)} \cup {R(k) : k \in (-1)..MaxB}

\* new StreamHist(arg); the setter the constructor calls throws on the empty
\* tree for a maxBins below 0, and no object is constructed
InitArgs ==
    \E arg \in MaxBinsArgs :
        /\ ctorMaxBins(arg) >= 0
        /\ InitWith(StreamHist(ctorMaxBins(arg), FALSE, 0, 0), Unused)

\* h.maxBins(arg) with an argument. For a value below 1 the setter returns
\* when size() is not above it, and else calls _compress(), which throws on
\* a tree of at most one bin, after _maxBins is assigned, and does not return
\* on a larger tree
SetMaxBinsArg(h, arg) ==
    /\ Searchable(W, h)
    /\ arg \notin {Undef, Null}
    /\ maxBinsValue(arg) >= 1 \/ size(W, h) <= 1
    /\ Step(IF maxBinsValue(arg) >= 1 THEN setMaxBins(W, h, maxBinsValue(arg))
            ELSE [W EXCEPT !.hist[h].maxBins = maxBinsValue(arg)],
            "maxBins", h)
    /\ UNCHANGED <<pushed, warmed>>

\* a sketch constructed with any maxBins argument, pushes, and the maxBins
\* setter called with any argument
NextArgs ==
    \/ \E x \in Values, c \in Weights : Push("a", x, c)
    \/ \E arg \in MaxBinsArgs : SetMaxBinsArg("a", arg)

SpecArgs == InitArgs /\ [][NextArgs]_vars

\* C14: maxBins() is a positive integer in every state: a maxBins argument
\* that is not a positive integer gives the default 100
C14_MaxBinsPositive == maxBinsOf(W, "a") >= 1

----------------------------------------------------------------------------
\* Limits and brackets of sum

\* the positions of the bins sum(x) interpolates between
sumBracket(x) == _bound(_cumulate(W, "a"), "a", x)

\* the bins sum(x) interpolates between have different means, or x is the
\* mean of the lower one and nothing is divided
GapNotZero(x) ==
    \/ FEq(BinAt(W, "a", sumBracket(x)[1]).mean, x)
    \/ BinAt(W, "a", sumBracket(x)[1]).mean # BinAt(W, "a", sumBracket(x)[2]).mean

\* a.count() after a.sum(x)
countAfterSum(x) == count(_sum(W, "a", x).w, "a")

\* C15: for a sketch filled by pushes and min() <= b < max(), sum(b) divides
\* by no zero gap between bracket means and returns a finite number between
\* 0 and count()
C15_SumFinite ==
    last.op = "push" =>
        \A x \in Xs :
            (FLe(hist["a"].min, x) /\ FLt(x, hist["a"].max)) =>
                /\ GapNotZero(x)
                /\ IsFinite(sum(x))
                /\ FLe(R(0), sum(x))
                /\ FLe(sum(x), R(countAfterSum(x)))

----------------------------------------------------------------------------
\* Limits of quantile and sum

\* quantile arguments below 0, in [0, 1] and above 1
WideQs == {Norm(k, QDen) : k \in (-QDen)..(2 * QDen)}

\* C16: on a non-empty sketch quantile(q) is min() for q <= 0 and max() for
\* q >= 1
C16_QuantileLimits ==
    last.op = "push" =>
        \A q \in WideQs :
            /\ FLe(q, R(0)) => quantile(q) = hist["a"].min
            /\ FLe(R(1), q) => quantile(q) = hist["a"].max

\* compression has moved the outermost bin means inside (min(), max())
C16_Witness ==
    /\ last.op = "push"
    /\ FLt(hist["a"].min, BinAt(W, "a", 1).mean)
    /\ FLt(BinAt(W, "a", size(W, "a")).mean, hist["a"].max)
    /\ quantile(R(-1)) = hist["a"].min
    /\ quantile(R(2)) = hist["a"].max

\* C17: on a non-empty sketch sum(x) is 0 for x < min() and count() for
\* x >= max()
C17_SumLimits ==
    last.op = "push" =>
        \A x \in Xs :
            /\ FLt(x, hist["a"].min) => sum(x) = R(0)
            /\ FLe(hist["a"].max, x) => sum(x) = R(countAfterSum(x))

\* sum was asked below min() and above max() of a sketch whose outermost bin
\* means compression has moved inside (min(), max())
C17_Witness ==
    /\ last.op = "push"
    /\ FLt(R(0), hist["a"].min)
    /\ FLt(hist["a"].min, BinAt(W, "a", 1).mean)
    /\ FLt(BinAt(W, "a", size(W, "a")).mean, hist["a"].max)
    /\ sum(R(0)) = R(0)
    /\ sum(R(MaxV + 1)) = R(count(W, "a"))

----------------------------------------------------------------------------
\* The estimated sum at a bin mean

\* total count of the bins of h before position i
RECURSIVE countBelow(_, _, _)
countBelow(w, h, i) ==
    IF i <= 1 THEN 0 ELSE BinAt(w, h, i - 1).count + countBelow(w, h, i - 1)

\* total count of the bins with a smaller mean plus half the count of bin i
halfWay(w, h, i) ==
    FAdd(R(countBelow(w, h, i)), FDiv(R(BinAt(w, h, i).count), R(2)))

\* C18: for a sketch built by pushes and a bin whose mean m has
\* min() <= m < max(), sum(m) is the total count of the bins with a smaller
\* mean plus half of the bin's own count
C18_SumAtBinMean ==
    last.op = "push" =>
        \A i \in 1..size(W, "a") :
            (/\ FLe(hist["a"].min, BinAt(W, "a", i).mean)
             /\ FLt(BinAt(W, "a", i).mean, hist["a"].max)) =>
                sum(BinAt(W, "a", i).mean) = halfWay(W, "a", i)

\* sum was asked at the mean of a bin that is not the first, lies below
\* max() and differs in count from the bin before it
C18_Witness ==
    /\ last.op = "push"
    /\ size(W, "a") >= 2
    /\ BinAt(W, "a", 1).count # BinAt(W, "a", 2).count
    /\ FLt(BinAt(W, "a", 2).mean, hist["a"].max)
    /\ sum(BinAt(W, "a", 2).mean) = halfWay(W, "a", 2)

----------------------------------------------------------------------------
\* Standard deviation

\* Math.sqrt of a variance
sqrtOf(v) == AddSqrt(R(0), R(1), v)

\* C19: whenever count() >= 2, variance() and std() are not null and std()
\* is the square root of variance() (0 when all pushed values are equal)
C19_StdIsSqrtVariance ==
    (last.op = "push" /\ count(W, "a") >= 2) =>
        /\ variance(W, "a") # Null
        /\ std(W, "a") # Null
        /\ std(W, "a") = sqrtOf(variance(W, "a"))

----------------------------------------------------------------------------
\* Freezing

\* C20: after pushes only, isFrozen() holds exactly when freeze() is above 0
\* and the total pushed weight is above freeze(); it is false on a new sketch
\* and in every state when freeze() is 0
C20_FrozenAfterThreshold ==
    last.op \in {"new", "push"} =>
        (isFrozen(W, "a") <=>
            (freeze(W, "a") > 0 /\ PushedTotal("a") > freeze(W, "a")))

\* pushes have taken the total weight from freeze() or below to above it
C20_Witness ==
    /\ last.op = "push"
    /\ freeze(W, "a") > 0
    /\ PushedTotal("a") > freeze(W, "a")
    /\ isFrozen(W, "a")

----------------------------------------------------------------------------
\* Reset

\* the configurations with freeze disabled and no gap weighting
LifeConfigs == {cfg \in Configs : ~cfg.weighted /\ cfg.freeze = 0}

InitLife == \E cfg \in LifeConfigs : InitWith(cfg, Unused)

\* pushes of weight 1 interleaved with the queries, reset and the maxBins
\* setter
NextLife ==
    \/ \E x \in Values : Push("a", x, 1)
    \/ \E q \in Qs : Quantile("a", q)
    \/ \E x \in Values : Sum("a", R(x))
    \/ Median("a")
    \/ Reset("a")
    \/ \E v \in 1..MaxB : SetMaxBins("a", v)

SpecLife == InitLife /\ [][NextLife]_vars

\* the sketch new StreamHist(...) constructs with the configuration of h
Fresh(w, h) ==
    StreamHist(maxBinsOf(w, h), w.hist[h].weighted, freeze(w, h), warmUp(w, h))

\* C21: reset() leaves the sketch with no bins, count() 0, min() and max()
\* null and its maxBins, weighted, freeze and warmUp unchanged: every field
\* of the sketch is that of a newly constructed sketch with its configuration
C21_ResetIsFresh ==
    [][last'.op = "reset" =>
        /\ WNext.hist["a"] = Fresh(W, "a")
        /\ size(WNext, "a") = 0
        /\ count(WNext, "a") = 0
        /\ WNext.hist["a"].min = Null
        /\ WNext.hist["a"].max = Null]_vars

\* a reset has acted and left the sketch as a newly constructed one
C21_Witness ==
    /\ last.op = "reset"
    /\ hist["a"] = Fresh(W, "a")
    /\ heap = <<>>

----------------------------------------------------------------------------
\* Limits and sign of density

\* h.push(x * Absorb, c): pushes of the values 0, Absorb, 2 * Absorb, ...
PushFar(h, x, c) ==
    /\ Searchable(W, h)
    /\ maxBinsOf(W, h) >= 1
    /\ PushedTotal("a") + PushedTotal("b") + c <= MaxTotal
    /\ Step(push(W, h, <<R(x * Absorb)>>, c), "push", h)
    /\ pushed' = [pushed EXCEPT ![h][x] = @ + c]
    /\ warmed' = [warmed EXCEPT ![h] = @ + WarmUps(W, h, 1, c)]

NextFar == \E x \in Values, c \in Weights : PushFar("a", x, c)

\* pushes of values Absorb apart into one sketch, in every configuration
SpecFar == Init /\ [][NextFar]_vars

\* arguments of density: the multiples of Absorb / 2 from below the least
\* pushed value to above the greatest, and the means of the bins
FarXs ==
    {Norm(k * Absorb, 2) : k \in (-1)..(2 * MaxV + 1)}
        \cup {BinAt(W, "a", i).mean : i \in 1..size(W, "a")}

\* C22: on a non-empty sketch density(b) is 0 for b < min() and for
\* b > max(), is Infinity for b = min() = max(), and is for every b a number
\* that is not negative
C22_DensityLimits ==
    last.op = "push" =>
        \A b \in FarXs :
            /\ (FLt(b, hist["a"].min) \/ FLt(hist["a"].max, b)) =>
                   density(W, "a", b) = R(0)
            /\ (FEq(b, hist["a"].min) /\ FEq(b, hist["a"].max)) =>
                   density(W, "a", b) = PosInf
            /\ IsNum(density(W, "a", b))
            /\ FLe(R(0), density(W, "a", b))

----------------------------------------------------------------------------
\* Cumulative counts

\* the sketch as quantile and sum read it: after their call of _cumulate()
Cumulated == _cumulate(W, "a")

\* C23: the cumn quantile and sum read of a bin is the total count of the
\* bins with a smaller mean plus half of the bin's own count, over the bins as
\* they are at the query, after any pushes, maxBins calls, resets and queries
C23_CumnFresh ==
    \A i \in 1..size(W, "a") :
        BinAt(Cumulated, "a", i).cumn = halfWay(Cumulated, "a", i)

----------------------------------------------------------------------------
\* Warm-up

\* the configurations with warmUp enabled, freeze disabled and no gap
\* weighting
WarmConfigs == {cfg \in LifeConfigs : cfg.warmUp > 0}

InitWarm == \E cfg \in WarmConfigs : InitWith(cfg, Unused)

\* pushes of weight 1 interleaved with quantile, sum, median and reset,
\* warmUp enabled
NextWarm ==
    \/ \E x \in Values : Push("a", x, 1)
    \/ \E q \in Qs : Quantile("a", q)
    \/ \E x \in Values : Sum("a", R(x))
    \/ Median("a")
    \/ Reset("a")

SpecWarm == InitWarm /\ [][NextWarm]_vars

\* C24: between construction or reset() and the next reset(), the warm-up
\* reset happens at most once over pushes of weight 1 interleaved with
\* quantile, sum and median
C24_WarmUpOnce == warmed["a"] <= 1

----------------------------------------------------------------------------
\* Pushes into a frozen sketch

\* a warmUp that a frozen sketch can still reach
WarmLate == FreezeAt + 2

\* the configurations with freeze enabled, and warmUp disabled or WarmLate
FrozenConfigs ==
    {StreamHist(mb, wt, FreezeAt, wu) :
        mb \in 1..MaxB, wt \in BOOLEAN, wu \in {0, WarmLate}}

InitFrozen == \E cfg \in FrozenConfigs : InitWith(cfg, Unused)

\* pushes of single values into one sketch constructed with freeze
NextFrozen == \E x \in Values, c \in Weights : Push("a", x, c)

SpecFrozen == InitFrozen /\ [][NextFrozen]_vars

\* the value and the weight of the push of the step
PushedValue == CHOOSE x \in Values : pushed'["a"][x] # pushed["a"][x]
PushedWeight == pushed'["a"][PushedValue] - pushed["a"][PushedValue]

\* the push of the step finds the sketch frozen and full and its value
\* different from every bin mean
FrozenPush ==
    /\ last'.op = "push"
    /\ isFrozen(W, "a")
    /\ size(W, "a") = maxBinsOf(W, "a")
    /\ \A i \in 1..size(W, "a") : BinAt(W, "a", i).mean # R(PushedValue)

\* no bin of h is nearer to x than the bin at position i
IsNearestBin(w, h, i, x) ==
    \A j \in 1..size(w, h) :
        FLe(FAbs(FSub(BinAt(w, h, i).mean, x)), FAbs(FSub(BinAt(w, h, j).mean, x)))

\* the step leaves the number of bins and every mean unchanged
KeepsBins ==
    /\ size(WNext, "a") = size(W, "a")
    /\ Means(WNext, "a") = Means(W, "a")

\* the step adds the pushed weight to the count of one bin, a nearest one,
\* and to no other
AddsToNearest ==
    \E i \in 1..size(W, "a") :
        /\ IsNearestBin(W, "a", i, R(PushedValue))
        /\ \A j \in 1..size(W, "a") :
              BinAt(WNext, "a", j).count =
                  BinAt(W, "a", j).count + (IF j = i THEN PushedWeight ELSE 0)

\* the step leaves every bin with count 1
CountsReset == \A j \in 1..size(WNext, "a") : BinAt(WNext, "a", j).count = 1

\* C25 as stated: while isFrozen() holds and size() = maxBins(), push(x, c)
\* with x different from every bin mean leaves the number of bins and the
\* means unchanged and adds c to the count of exactly one bin, a nearest one
C25_FrozenPush == [][FrozenPush => (KeepsBins /\ AddsToNearest)]_vars

\* C25 amended: such a push leaves the number of bins and the means
\* unchanged; it adds c to the count of exactly one bin, a nearest one,
\* unless it takes count() to warmUp(), and then every bin's count is 1
C25_FrozenPushOrWarmUp ==
    [][FrozenPush =>
        /\ KeepsBins
        /\ IF count(WNext, "a") = warmUp(W, "a") THEN CountsReset ELSE AddsToNearest]_vars

\* a sketch of two bins has frozen and taken further pushes: every value
\* was pushed once, with weight 1, the bins are still at the least and the
\* greatest value, and they hold the weight of the values in between
C25_Witness ==
    /\ last.op = "push"
    /\ isFrozen(W, "a")
    /\ size(W, "a") = 2
    /\ maxBinsOf(W, "a") = 2
    /\ \A v \in Values : pushed["a"][v] <= 1
    /\ PushedTotal("a") >= FreezeAt + 2
    /\ BinAt(W, "a", 1).mean = hist["a"].min
    /\ BinAt(W, "a", 2).mean = hist["a"].max
    /\ BinAt(W, "a", 1).count + BinAt(W, "a", 2).count = PushedTotal("a")

----------------------------------------------------------------------------
\* The brackets of the searches

\* s = this.count() * q of _quantile
quantileTarget(q) == FMul(R(count(W, "a")), q)

\* the bracket _quantile searches for s: positions <<lower, upper>>, 0 for null
quantileBracket(q) == _boundCumn(Cumulated, "a", quantileTarget(q))

\* both bins of the bracket exist, lower.cumn <= s <= upper.cumn, and upper
\* is lower or the bin right after it
BracketsTarget(bound, s) ==
    /\ bound[1] # 0
    /\ bound[2] # 0
    /\ FLe(BinAt(Cumulated, "a", bound[1]).cumn, s)
    /\ FLe(s, BinAt(Cumulated, "a", bound[2]).cumn)
    /\ (bound[2] = bound[1] \/ bound[2] = bound[1] + 1)

\* C26: for a non-empty sketch built by pushes and 0 < q < 1, the bracket
\* search for s = count() * q gives existing bins lower and upper with
\* lower.cumn <= s <= upper.cumn, upper being lower or the bin after it
C26_QuantileBracket ==
    last.op = "push" =>
        \A q \in Qs :
            (FLt(R(0), q) /\ FLt(q, R(1))) =>
                BracketsTarget(quantileBracket(q), quantileTarget(q))

\* lower.mean <= b <= upper.mean for the bins at bound
BracketsValue(bound, b) ==
    /\ FLe(BinAt(W, "a", bound[1]).mean, b)
    /\ FLe(b, BinAt(W, "a", bound[2]).mean)

\* C27: for a sketch built by pushes and min() <= b < max(), the bins lower
\* and upper that sum(b) and density(b) interpolate between have
\* lower.mean <= b <= upper.mean
C27_ValueBracket ==
    last.op = "push" =>
        \A b \in Xs :
            (FLe(hist["a"].min, b) /\ FLt(b, hist["a"].max)) =>
                BracketsValue(_bound(W, "a", b), b)

----------------------------------------------------------------------------
\* Compression steps

\* the sketch after _insert(x, c), before the _compress() of push
Inserted(x, c) == _insert(W, "a", R(x), c)

\* the cost of the bins at positions i and i + 1 of h: the squared gap of
\* their means, times ln(e + the smaller count) when weighted is on
PairCost(w, h, i) ==
    <<FSq(FSub(BinAt(w, h, i + 1).mean, BinAt(w, h, i).mean))[1],
      FSq(FSub(BinAt(w, h, i + 1).mean, BinAt(w, h, i).mean))[2],
      IF w.hist[h].weighted
      THEN LnTable[Min2(BinAt(w, h, i).count, BinAt(w, h, i + 1).count)]
      ELSE 1000>>

\* no adjacent pair of w costs less than the pair at i
LeastCost(w, h, i) ==
    \A j \in 1..(size(w, h) - 1) : ~CostLt(PairCost(w, h, j), PairCost(w, h, i))

\* the weighted average of the means of the bins at i and i + 1
PairMean(w, h, i) ==
    FDiv(FAdd(FMul(BinAt(w, h, i).mean, R(BinAt(w, h, i).count)),
              FMul(BinAt(w, h, i + 1).mean, R(BinAt(w, h, i + 1).count))),
         R(BinAt(w, h, i).count + BinAt(w, h, i + 1).count))

\* v is w with the bins at i and i + 1 replaced by one bin of their total
\* count and weighted average mean, and every other bin as it was
ReplacesPair(w, v, h, i) ==
    /\ size(v, h) = size(w, h) - 1
    /\ BinAt(v, h, i).count = BinAt(w, h, i).count + BinAt(w, h, i + 1).count
    /\ BinAt(v, h, i).mean = PairMean(w, h, i)
    /\ \A j \in 1..(i - 1) : BinAt(v, h, j) = BinAt(w, h, j)
    /\ \A j \in (i + 1)..size(v, h) : BinAt(v, h, j) = BinAt(w, h, j + 1)

\* v is w after one compression step as C28 describes it
StepCompresses(w, v, h) ==
    \E i \in 1..(size(w, h) - 1) : LeastCost(w, h, i) /\ ReplacesPair(w, v, h, i)

\* C28: each compression step replaces an adjacent pair of bins of least
\* cost by one bin with the sum of their counts and the weighted average of
\* their means, takes size() down by one and leaves every other bin
\* unchanged; checked on the step after every insertion that overfills
C28_CompressStep ==
    \A x \in Values, c \in Weights :
        size(Inserted(x, c), "a") > maxBinsOf(W, "a") =>
            StepCompresses(Inserted(x, c), compressStep(Inserted(x, c), "a"), "a")

\* a push has compressed a weighted sketch, and a further insertion overfills
\* it with three bins of which the second pair costs least
C28_Witness ==
    /\ last.op = "push"
    /\ hist["a"].weighted
    /\ Distinct("a") > maxBinsOf(W, "a")
    /\ \E x \in Values :
          /\ size(Inserted(x, 1), "a") = 3
          /\ ScanPairs(Inserted(x, 1), "a", 1, 0, <<1, 0, 1000>>) = 2
          /\ StepCompresses(Inserted(x, 1), compressStep(Inserted(x, 1), "a"), "a")

----------------------------------------------------------------------------
\* The nearest bin

\* the distance of the mean of the bin at position i from x
Distance(i, x) == FAbs(FSub(BinAt(W, "a", i).mean, x))

\* no bin is nearer to x than the bin at i, and no bin as near lies above it
NearestFromAbove(i, x) ==
    \A j \in 1..size(W, "a") :
        /\ FLe(Distance(i, x), Distance(j, x))
        /\ Distance(j, x) = Distance(i, x) => j <= i

\* C29: findNearest(x) is null on an empty sketch, and else a bin whose
\* distance |mean - x| is least over all bins, the one above x when the
\* nearest bin below x and the nearest bin above x are equally distant
C29_FindNearest ==
    \A x \in Xs :
        IF size(W, "a") = 0 THEN findNearest(W, "a", x) = 0
        ELSE /\ findNearest(W, "a", x) \in 1..size(W, "a")
             /\ NearestFromAbove(findNearest(W, "a", x), x)

\* findNearest was asked for a value as far from the bin below it as from
\* the bin above it and returned the bin above
C29_Witness ==
    /\ last.op = "push"
    /\ size(W, "a") = 2
    /\ \E x \in Xs :
          /\ FLt(BinAt(W, "a", 1).mean, x)
          /\ Distance(1, x) = Distance(2, x)
          /\ findNearest(W, "a", x) = 2

----------------------------------------------------------------------------
\* Order of the bins

\* C30: after any pushes and merges toArray() of every sketch, receiver or
\* argument of a merge, is strictly increasing by mean, so that no two bins
\* share a mean, and every bin count is positive
C30_StrictlyIncreasing ==
    \A h \in Sketches :
        /\ \A i \in 1..(size(W, h) - 1) :
              FLt(toArray(W, h)[i].mean, toArray(W, h)[i + 1].mean)
        /\ \A i \in 1..size(W, h) : toArray(W, h)[i].count > 0

----------------------------------------------------------------------------
\* Number of bins

\* C31: after any sequence of pushes into a new sketch with maxBins B >= 1,
\* frozen or not, size() is the smaller of B and the number of distinct values
\* pushed so far
C31_SizeIsMinOfCapAndDistinct ==
    size(W, "a") = Min2(maxBinsOf(W, "a"), Distinct("a"))

\* a frozen sketch that has taken more distinct values than it has bins, after
\* a push that found it frozen and full
C31_Witness ==
    /\ last.op = "push"
    /\ isFrozen(W, "a")
    /\ maxBinsOf(W, "a") = MaxB
    /\ Distinct("a") > MaxB
    /\ PushedTotal("a") > FreezeAt + 1

----------------------------------------------------------------------------
\* First moment

RECURSIVE BagMoment(_, _)
BagMoment(bag, v) == IF v > MaxV THEN 0 ELSE v * bag[v] + BagMoment(bag, v + 1)

\* the sum of value * weight over the pushes into sketch h
PushedMoment(h) == BagMoment(pushed[h], 0)

\* C32: with freeze and warmUp disabled, after any sequence of pushes the sum
\* over the bins of mean * count is the sum over the pushes of value * weight,
\* and mean() is the weighted mean of the pushed values
C32_FirstMoment ==
    (freeze(W, "a") = 0 /\ warmUp(W, "a") = 0) =>
        /\ MeanSum(W, "a", 1) = R(PushedMoment("a"))
        /\ PushedTotal("a") > 0 =>
              mean(W, "a") = Norm(PushedMoment("a"), PushedTotal("a"))

\* _compress has combined bins of different counts: more distinct values than
\* bins, and a bin whose mean is none of the pushed integers
C32_Witness ==
    /\ last.op = "push"
    /\ freeze(W, "a") = 0
    /\ warmUp(W, "a") = 0
    /\ Distinct("a") > maxBinsOf(W, "a")
    /\ \E i \in 1..size(W, "a") :
          BinAt(W, "a", i).mean[2] = 3 /\ BinAt(W, "a", i).count = 3

----------------------------------------------------------------------------
\* Total sum of squares

RECURSIVE TssSum(_, _, _)
\* this.bins().each(b => tss += b.tss), from position i on
TssSum(w, h, i) ==
    IF i > size(w, h) THEN R(0) ELSE FAdd(BinAt(w, h, i).tss, TssSum(w, h, i + 1))

\* tss(): the sum is computed and stored when _tss is falsy, and the stored
\* _tss is returned otherwise
tss(w, h) ==
    IF Falsy(w.hist[h].tss)
    THEN Ret([w EXCEPT !.hist[h].tss = TssSum(w, h, 1)], TssSum(w, h, 1))
    ELSE Ret(w, w.hist[h].tss)

\* h.tss()
Tss(h) ==
    /\ Step(tss(W, h).w, "tss", h)
    /\ UNCHANGED <<pushed, warmed>>

\* two sketches: pushes of weight 1 into both, merges of b into a, the maxBins
\* setter of a and tss() of a
NextTss ==
    \/ \E h \in Sketches, x \in 0..(MaxV - 1) : Push(h, x, 1)
    \/ Merge("a", "b", 0)
    \/ \E v \in 1..MaxB : SetMaxBins("a", v)
    \/ Tss("a")

SpecTss == InitMerge /\ [][NextTss]_vars

\* C33: after any sequence of push, merge, maxBins-setter and tss() calls,
\* tss() returns the sum of the tss fields of the bins the sketch holds
C33_TssIsBinSum == tss(W, "a").v = TssSum(W, "a", 1)

----------------------------------------------------------------------------
\* Freeze

\* the configurations with freeze enabled and no gap weighting
ThawConfigs == {cfg \in Configs : cfg.freeze = FreezeAt /\ ~cfg.weighted}

InitThaw == \E cfg \in ThawConfigs : InitWith(cfg, Unused)

\* pushes interleaved with quantile, sum and reset, freeze enabled
NextThaw ==
    \/ \E x \in Values, c \in Weights : Push("a", x, c)
    \/ \E q \in Qs : Quantile("a", q)
    \/ \E x \in Values : Sum("a", R(x))
    \/ Reset("a")

SpecThaw == InitThaw /\ [][NextThaw]_vars

\* C34: once isFrozen() is true of a sketch with freeze enabled, it is true
\* after every further push and query, until reset() is called
C34_FrozenStays ==
    [][(isFrozen(W, "a") /\ last'.op # "reset") => isFrozen(WNext, "a")]_vars

----------------------------------------------------------------------------
\* Merge in either order

\* no bin object is held by both sketches
Unshared == \A i \in 1..size(W, "a"), j \in 1..size(W, "b") :
                Bins(W, "a")[i] # Bins(W, "b")[j]

\* what merge leaves in its receiver h: toArray(), count(), min(), max()
Merged(h, g) ==
    <<toArray(merge(W, h, g, 0), h), count(merge(W, h, g, 0), h),
      merge(W, h, g, 0).hist[h].min, merge(W, h, g, 0).hist[h].max>>

\* C35: for two sketches a and b with the same maxBins and weighted setting
\* that share no bin, a.merge(b) leaves in a the toArray(), count(), min() and
\* max() that b.merge(a) leaves in b
C35_MergeCommutes ==
    (/\ maxBinsOf(W, "a") = maxBinsOf(W, "b")
     /\ hist["a"].weighted = hist["b"].weighted
     /\ Searchable(W, "a") /\ Searchable(W, "b")
     /\ Unshared)
        => Merged("a", "b") = Merged("b", "a")

----------------------------------------------------------------------------
\* Bin means within the extrema

\* C36: after any sequence of pushes and merges in which a sketch takes part,
\* as receiver or as argument, every bin mean m of the sketch satisfies
\* min() <= m <= max()
C36_MeansWithinExtrema ==
    \A h \in Sketches :
        \A i \in 1..size(W, h) :
            /\ FLe(hist[h].min, BinAt(W, h, i).mean)
            /\ FLe(BinAt(W, h, i).mean, hist[h].max)

----------------------------------------------------------------------------
\* Merge of empty sketches

\* sketch h is as the constructor leaves it: no bin, count() 0, and min()
\* and max() null
Empty(w, h) ==
    /\ size(w, h) = 0
    /\ count(w, h) = 0
    /\ w.hist[h].min = Null
    /\ w.hist[h].max = Null

\* C37: a.merge(b) of two empty sketches leaves a empty: size() 0, count() 0,
\* and min() and max() null
C37_MergeOfEmpties ==
    [][(last'.op = "merge" /\ Empty(W, "a") /\ Empty(W, "b"))
          => Empty(WNext, "a")]_vars

====
